---- MODULE Spec2Model ----
(***************************************************************************)
(* A model of matrix::matrix<T> (matrix.h), built with the range checks    *)
(* compiled in (MATRIX_NOTHROW undefined) and T an integer type.           *)
(*                                                                         *)
(* A matrix object is the record [m_rows, m_columns, m_data]; m_data is    *)
(* the row-major std::vector<T>, so the element at offset k of the vector  *)
(* is m_data[k + 1].  Every member function is an operator that returns    *)
(* what the call yields: err is "OK" or the message the call throws, val   *)
(* the returned value.  Loops are recursive operators over the loop        *)
(* counter, and a throw inside a loop body ends the loop.                  *)
(***************************************************************************)
EXTENDS Integers, Sequences, FiniteSets, TLC

\* Bounds of the model.
MaxDim == 2          \* rows and columns of the objects of Spec are at most this
MaxN == 3            \* rows and columns of the receiver of SpecUnary are at most this
MaxVal == 1          \* element values are at most this in absolute value

\* The element values of Spec, and those of the receiver of SpecDet.
Elem == (0 - MaxVal) .. MaxVal
DetElem == 0 .. MaxVal

\* enum __error_code / __error_messages, and "no exception".
OK == "OK"
ERR_ROW_RANGE == "ERR_ROW_RANGE"
ERR_COL_RANGE == "ERR_COL_RANGE"
ERR_INVALID_SIZE == "ERR_INVALID_SIZE"
ERR_INCOMPATIBLE == "ERR_INCOMPATIBLE"
ERR_NOT_SQUARE == "ERR_NOT_SQUARE"

\* T(): the value-initialised element.
T0 == 0

\* What a call that threw leaves in place of its return value.
NoMatrix == [m_rows |-> 0, m_columns |-> 0, m_data |-> <<>>]

\* matrix(size_t rows, size_t columns, T fill = T())
matrix(rows, columns, fill) ==
    IF (rows < 1) \/ (columns < 1)
    THEN [err |-> ERR_INVALID_SIZE, val |-> NoMatrix]
    ELSE [err |-> OK,
          val |-> [m_rows |-> rows, m_columns |-> columns,
                   m_data |-> [index \in 1 .. rows * columns |-> fill]]]

\* size_t rows()
rows(self) == self.m_rows

\* size_t columns()
columns(self) == self.m_columns

\* operator() with the column checked before the row.
op_call_column_first(self, row, column) ==
    IF (column < 0) \/ (column >= self.m_columns)
    THEN [err |-> ERR_COL_RANGE, off |-> 0]
    ELSE IF (row < 0) \/ (row >= self.m_rows)
    THEN [err |-> ERR_ROW_RANGE, off |-> 0]
    ELSE [err |-> OK, off |-> row * self.m_columns + column]

\* T& operator()(size_t row, size_t column): the offset of the slot it yields.
op_call(self, row, column) ==
    IF (row < 0) \/ (row >= self.m_rows)
    THEN [err |-> ERR_ROW_RANGE, off |-> 0]
    ELSE IF (column < 0) \/ (column >= self.m_columns)
    THEN [err |-> ERR_COL_RANGE, off |-> 0]
    ELSE [err |-> OK, off |-> row * self.m_columns + column]

\* A read through operator(): m(row, column) as an rvalue.
Load(m, row, column) ==
    LET slot == op_call(m, row, column)
    IN  IF slot.err # OK
        THEN [err |-> slot.err, val |-> T0]
        ELSE [err |-> OK, val |-> m.m_data[slot.off + 1]]

\* A write through operator(): st.val(row, column) = v, where st = [err, val]
\* is the state of the function so far (val its local matrix "result").
Store(st, row, column, v) ==
    IF st.err # OK THEN st
    ELSE LET slot == op_call(st.val, row, column)
         IN  IF slot.err # OK
             THEN [st EXCEPT !.err = slot.err]
             ELSE [st EXCEPT !.val.m_data[slot.off + 1] = v]

\* result(row, column) = rhs, where rhs = [err, val] is the evaluated right
\* side: a throw on the right side is the throw of the statement.
Assign(st, row, column, rhs) ==
    IF st.err # OK THEN st
    ELSE IF rhs.err # OK THEN [st EXCEPT !.err = rhs.err]
    ELSE Store(st, row, column, rhs.val)

\* A function that returns its local "result" by value, or throws.
Return(st) == IF st.err # OK THEN [err |-> st.err, val |-> NoMatrix] ELSE st

\* matrix<T> row_vector(size_t row): the loop over column.
RECURSIVE row_vector_loop(_, _, _, _)
row_vector_loop(self, row, column, st) ==
    IF st.err # OK \/ ~(column < self.m_columns) THEN st
    ELSE row_vector_loop(self, row, column + 1,
             Assign(st, 0, column, Load(self, row, column)))

row_vector(self, row) ==
    IF (row < 0) \/ (row >= self.m_rows)
    THEN [err |-> ERR_ROW_RANGE, val |-> NoMatrix]
    ELSE Return(row_vector_loop(self, row, 0, matrix(1, self.m_columns, T0)))

\* matrix<T> column_vector(size_t column): the loop over row.
RECURSIVE column_vector_loop(_, _, _, _)
column_vector_loop(self, column, row, st) ==
    IF st.err # OK \/ ~(row < self.m_rows) THEN st
    ELSE column_vector_loop(self, column, row + 1,
             Assign(st, row, 0, Load(self, row, column)))

column_vector(self, column) ==
    IF (column < 0) \/ (column >= self.m_columns)
    THEN [err |-> ERR_COL_RANGE, val |-> NoMatrix]
    ELSE Return(column_vector_loop(self, column, 0, matrix(self.m_columns, 1, T0)))

\* The visitors handed to transform: each gets (row, column, T& element).
Lambdas == {"negate", "clear", "checker"}

\* lambda(row, column, element): the value the visitor leaves in the element.
ApplyLambda(lambda, row, column, element) ==
    CASE lambda = "negate" -> 0 - element
      [] lambda = "clear" -> T0
      [] lambda = "checker" -> IF (row + column) % 2 = 0 THEN element ELSE 0 - element

\* matrix<T>& transform(L&& lambda): the loops over row and column; st.val is
\* the receiver itself, seen through the reference "result".
RECURSIVE transform_loop(_, _, _, _)
transform_loop(lambda, row, column, st) ==
    IF st.err # OK \/ ~(row < st.val.m_rows) THEN st
    ELSE IF ~(column < st.val.m_columns) THEN transform_loop(lambda, row + 1, 0, st)
    ELSE LET element == Load(st.val, row, column)
         IN  transform_loop(lambda, row, column + 1,
                 Assign(st, row, column,
                        [err |-> element.err,
                         val |-> ApplyLambda(lambda, row, column, element.val)]))

transform(self, lambda) == transform_loop(lambda, 0, 0, [err |-> OK, val |-> self])

\* operator= without the size check (as under MATRIX_NOTHROW).
op_assign_unchecked(self, operand) ==
    [err |-> OK, val |-> [self EXCEPT !.m_data = operand]]

\* operator= that replaces m_data before it checks the size.
op_assign_then_check(self, operand) ==
    [err |-> IF self.m_rows * self.m_columns # Len(operand) THEN ERR_INCOMPATIBLE ELSE OK,
     val |-> [self EXCEPT !.m_data = operand]]

\* matrix<T>& operator=(std::initializer_list<T> operand): val is the receiver
\* after the call.
op_assign(self, operand) ==
    IF self.m_rows * self.m_columns # Len(operand)
    THEN [err |-> ERR_INCOMPATIBLE, val |-> self]
    ELSE [err |-> OK, val |-> [self EXCEPT !.m_data = operand]]

\* matrix<T> operator+(matrix<T>& operand): the loops over row and column.
RECURSIVE op_add_loop(_, _, _, _, _)
op_add_loop(self, operand, row, column, st) ==
    IF st.err # OK \/ ~(row < self.m_rows) THEN st
    ELSE IF ~(column < self.m_columns) THEN op_add_loop(self, operand, row + 1, 0, st)
    ELSE LET lhs == Load(self, row, column)
             rhs == Load(operand, row, column)
         IN  op_add_loop(self, operand, row, column + 1,
                 Assign(st, row, column,
                        [err |-> IF lhs.err # OK THEN lhs.err ELSE rhs.err,
                         val |-> lhs.val + rhs.val]))

op_add(self, operand) ==
    IF (self.m_rows # operand.m_rows) \/ (self.m_columns # operand.m_columns)
    THEN [err |-> ERR_INCOMPATIBLE, val |-> NoMatrix]
    ELSE Return(op_add_loop(self, operand, 0, 0, matrix(self.m_rows, self.m_columns, T0)))

\* matrix<T> operator-(matrix<T>& operand): the loops over row and column.
RECURSIVE op_sub_loop(_, _, _, _, _)
op_sub_loop(self, operand, row, column, st) ==
    IF st.err # OK \/ ~(row < self.m_rows) THEN st
    ELSE IF ~(column < self.m_columns) THEN op_sub_loop(self, operand, row + 1, 0, st)
    ELSE LET lhs == Load(self, row, column)
             rhs == Load(operand, row, column)
         IN  op_sub_loop(self, operand, row, column + 1,
                 Assign(st, row, column,
                        [err |-> IF lhs.err # OK THEN lhs.err ELSE rhs.err,
                         val |-> lhs.val - rhs.val]))

op_sub(self, operand) ==
    IF (self.m_rows # operand.m_rows) \/ (self.m_columns # operand.m_columns)
    THEN [err |-> ERR_INCOMPATIBLE, val |-> NoMatrix]
    ELSE Return(op_sub_loop(self, operand, 0, 0, matrix(self.m_rows, self.m_columns, T0)))

\* matrix<T> operator-(): the loops; the body reads result, not *this.
RECURSIVE op_neg_loop(_, _, _, _)
op_neg_loop(self, row, column, st) ==
    IF st.err # OK \/ ~(row < self.m_rows) THEN st
    ELSE IF ~(column < self.m_columns) THEN op_neg_loop(self, row + 1, 0, st)
    ELSE LET cur == Load(st.val, row, column)
         IN  op_neg_loop(self, row, column + 1,
                 Assign(st, row, column, [err |-> cur.err, val |-> 0 - cur.val]))

op_neg(self) ==
    Return(op_neg_loop(self, 0, 0, matrix(self.m_rows, self.m_columns, T0)))

\* operator*(T) that multiplies the elements of *this by the operand.
RECURSIVE op_mul_scalar_loop_product(_, _, _, _, _)
op_mul_scalar_loop_product(self, operand, row, column, st) ==
    IF st.err # OK \/ ~(row < self.m_rows) THEN st
    ELSE IF ~(column < self.m_columns)
    THEN op_mul_scalar_loop_product(self, operand, row + 1, 0, st)
    ELSE LET cur == Load(self, row, column)
         IN  op_mul_scalar_loop_product(self, operand, row, column + 1,
                 Assign(st, row, column, [err |-> cur.err, val |-> cur.val * operand]))

\* matrix<T> operator*(T operand): the loops; the body reads result, not *this.
RECURSIVE op_mul_scalar_loop(_, _, _, _, _)
op_mul_scalar_loop(self, operand, row, column, st) ==
    IF st.err # OK \/ ~(row < self.m_rows) THEN st
    ELSE IF ~(column < self.m_columns) THEN op_mul_scalar_loop(self, operand, row + 1, 0, st)
    ELSE LET cur == Load(st.val, row, column)
         IN  op_mul_scalar_loop(self, operand, row, column + 1,
                 Assign(st, row, column, [err |-> cur.err, val |-> cur.val + operand]))

op_mul_scalar(self, operand) ==
    Return(op_mul_scalar_loop(self, operand, 0, 0, matrix(self.m_rows, self.m_columns, T0)))

\* operator*(matrix) that reads operand(column, element).
RECURSIVE op_mul_loop_swapped(_, _, _, _, _, _)
op_mul_loop_swapped(self, operand, row, column, element, st) ==
    IF st.err # OK \/ ~(row < self.m_rows) THEN st
    ELSE IF ~(column < operand.m_columns)
    THEN op_mul_loop_swapped(self, operand, row + 1, 0, 0, st)
    ELSE IF ~(element < self.m_columns)
    THEN op_mul_loop_swapped(self, operand, row, column + 1, 0, st)
    ELSE LET cur == Load(st.val, row, column)
             lhs == Load(self, row, element)
             rhs == Load(operand, column, element)
         IN  op_mul_loop_swapped(self, operand, row, column, element + 1,
                 Assign(st, row, column,
                        [err |-> IF cur.err # OK THEN cur.err
                                 ELSE IF lhs.err # OK THEN lhs.err ELSE rhs.err,
                         val |-> cur.val + lhs.val * rhs.val]))

\* matrix<T> operator*(matrix<T> operand): the loops over row, column, element.
RECURSIVE op_mul_loop(_, _, _, _, _, _)
op_mul_loop(self, operand, row, column, element, st) ==
    IF st.err # OK \/ ~(row < self.m_rows) THEN st
    ELSE IF ~(column < operand.m_columns)
    THEN op_mul_loop(self, operand, row + 1, 0, 0, st)
    ELSE IF ~(element < self.m_columns)
    THEN op_mul_loop(self, operand, row, column + 1, 0, st)
    ELSE LET cur == Load(st.val, row, column)
             lhs == Load(self, row, element)
             rhs == Load(operand, element, column)
         IN  op_mul_loop(self, operand, row, column, element + 1,
                 Assign(st, row, column,
                        [err |-> IF cur.err # OK THEN cur.err
                                 ELSE IF lhs.err # OK THEN lhs.err ELSE rhs.err,
                         val |-> cur.val + lhs.val * rhs.val]))

op_mul(self, operand) ==
    IF self.m_columns # operand.m_rows
    THEN [err |-> ERR_INCOMPATIBLE, val |-> NoMatrix]
    ELSE Return(op_mul_loop(self, operand, 0, 0, 0,
                            matrix(self.m_rows, operand.m_columns, T0)))

\* matrix<T> transpose(): the loops over row and column.
RECURSIVE transpose_loop(_, _, _, _)
transpose_loop(self, row, column, st) ==
    IF st.err # OK \/ ~(row < self.m_rows) THEN st
    ELSE IF ~(column < self.m_columns) THEN transpose_loop(self, row + 1, 0, st)
    ELSE transpose_loop(self, row, column + 1,
             Assign(st, column, row, Load(self, row, column)))

transpose(self) ==
    Return(transpose_loop(self, 0, 0, matrix(self.m_columns, self.m_rows, T0)))

\* result.m_data[index++] = v in minor: std::vector::operator[] checks
\* nothing, so a write at index >= size() lands outside the storage of result
\* (oob), and index advances either way.
RawStore(st, v) ==
    IF st.index < Len(st.val.m_data)
    THEN [st EXCEPT !.val.m_data[st.index + 1] = v, !.index = st.index + 1]
    ELSE [st EXCEPT !.oob = TRUE, !.stray = v, !.index = st.index + 1]

\* minor that compares row with at_column and column with at_row.
RECURSIVE minor_loop_swapped(_, _, _, _, _, _)
minor_loop_swapped(self, at_row, at_column, row, column, st) ==
    IF st.err # OK \/ ~(row < self.m_rows) THEN st
    ELSE IF ~(column < self.m_columns)
    THEN minor_loop_swapped(self, at_row, at_column, row + 1, 0, st)
    ELSE IF row = at_column
    THEN minor_loop_swapped(self, at_row, at_column, row, column + 1, st)
    ELSE IF column = at_row
    THEN minor_loop_swapped(self, at_row, at_column, row, column + 1, st)
    ELSE LET src == Load(self, row, column)
         IN  minor_loop_swapped(self, at_row, at_column, row, column + 1,
                 IF src.err # OK THEN [st EXCEPT !.err = src.err]
                 ELSE RawStore(st, src.val))

\* matrix<T> minor(size_t at_row, size_t at_column): the loops over row and
\* column, with the two "continue" statements.
RECURSIVE minor_loop(_, _, _, _, _, _)
minor_loop(self, at_row, at_column, row, column, st) ==
    IF st.err # OK \/ ~(row < self.m_rows) THEN st
    ELSE IF ~(column < self.m_columns)
    THEN minor_loop(self, at_row, at_column, row + 1, 0, st)
    ELSE IF row = at_row THEN minor_loop(self, at_row, at_column, row, column + 1, st)
    ELSE IF column = at_column THEN minor_loop(self, at_row, at_column, row, column + 1, st)
    ELSE LET src == Load(self, row, column)
         IN  minor_loop(self, at_row, at_column, row, column + 1,
                 IF src.err # OK THEN [st EXCEPT !.err = src.err]
                 ELSE RawStore(st, src.val))

\* minor: err, the returned matrix val, the final index, and whether a write
\* went outside the storage of result (oob; stray is the value it wrote).
minor(self, at_row, at_column) ==
    LET result == matrix(self.m_rows - 1, self.m_columns - 1, T0)
        st == minor_loop(self, at_row, at_column, 0, 0,
                         [err |-> result.err, val |-> result.val,
                          index |-> 0, oob |-> FALSE, stray |-> T0])
    IN  IF st.err # OK THEN [st EXCEPT !.val = NoMatrix] ELSE st

\* T determinant(): err and the returned value (defined below, after its loop).
RECURSIVE determinant(_)

\* The loop of determinant with every term added, whatever the row.
RECURSIVE determinant_loop_unsigned(_, _, _)
determinant_loop_unsigned(self, row, st) ==
    IF st.err # OK \/ ~(row < self.m_rows) THEN st
    ELSE LET sub_matrix == minor(self, row, 0)
             head == Load(self, row, 0)
             sub_det == IF sub_matrix.err # OK
                        THEN [err |-> sub_matrix.err, val |-> T0]
                        ELSE determinant(sub_matrix.val)
             sub_result == head.val * sub_det.val
         IN  determinant_loop_unsigned(self, row + 1,
                 IF sub_matrix.err # OK THEN [st EXCEPT !.err = sub_matrix.err]
                 ELSE IF head.err # OK THEN [st EXCEPT !.err = head.err]
                 ELSE IF sub_det.err # OK THEN [st EXCEPT !.err = sub_det.err]
                 ELSE [st EXCEPT !.val = st.val + sub_result])

\* The loop over row of the general case of determinant; st = [err, val], with
\* val the local "result".
RECURSIVE determinant_loop(_, _, _)
determinant_loop(self, row, st) ==
    IF st.err # OK \/ ~(row < self.m_rows) THEN st
    ELSE LET sub_matrix == minor(self, row, 0)
             head == Load(self, row, 0)
             sub_det == IF sub_matrix.err # OK
                        THEN [err |-> sub_matrix.err, val |-> T0]
                        ELSE determinant(sub_matrix.val)
             sub_result == head.val * sub_det.val
         IN  determinant_loop(self, row + 1,
                 IF sub_matrix.err # OK THEN [st EXCEPT !.err = sub_matrix.err]
                 ELSE IF head.err # OK THEN [st EXCEPT !.err = head.err]
                 ELSE IF sub_det.err # OK THEN [st EXCEPT !.err = sub_det.err]
                 ELSE IF row % 2 = 0
                 THEN [st EXCEPT !.val = st.val + sub_result]
                 ELSE [st EXCEPT !.val = st.val - sub_result])

\* T determinant()
determinant(self) ==
    IF self.m_rows # self.m_columns
    THEN [err |-> ERR_NOT_SQUARE, val |-> T0]
    ELSE IF self.m_rows = 1
    THEN Load(self, 0, 0)
    ELSE IF self.m_rows = 2
    THEN LET e00 == Load(self, 0, 0)
             e11 == Load(self, 1, 1)
             e10 == Load(self, 1, 0)
             e01 == Load(self, 0, 1)
         IN  [err |-> OK, val |-> e00.val * e11.val - e10.val * e01.val]
    ELSE LET st == determinant_loop(self, 0, [err |-> OK, val |-> T0])
         IN  IF st.err # OK THEN [err |-> st.err, val |-> T0] ELSE st

(***************************************************************************)
(* The client program: two matrix objects, and one call at a time.         *)
(***************************************************************************)
VARIABLES
    mats,    \* the live objects: name -> [m_rows, m_columns, m_data]
    given,   \* the rows and columns each object was constructed with
    call,    \* the last call: its name, receiver, operand and arguments
    err,     \* OK, the exception the last call threw, or ABORTED
    resM,    \* the matrix the last call returned (NoMatrix if none)
    resT,    \* the element or size the last call returned (T0 if none)
    oob      \* the last call wrote outside the storage of a vector

vars == <<mats, given, call, err, resM, resT, oob>>

Obj == {"a", "b"}

\* What undefined behaviour ends in: the process dies.
ABORTED == "ABORTED"

\* The outcomes of a write past the end of the storage of a vector: it lands in
\* unused heap memory, it lands in the heap storage that follows (the head of
\* the element storage of a live object), or the process dies.
UBOutcomes == {"returns", "corrupts", "aborts"}

\* The client is between two statements.
Idle == call.op = "idle"

\* A call: the member called, its receiver, its matrix operand (the receiver
\* when it has none), its size arguments i and j, and its element argument v.
Call(op, recv, other, i, j, v) ==
    [op |-> op, recv |-> recv, other |-> other, i |-> i, j |-> j, v |-> v]

\* Sequences over S of length n.
SeqsOfLen(S, n) == [1 .. n -> S]

\* Every matrix object with rows and columns in 1 .. n and elements in S.
AllMatrices(n, S) ==
    UNION { { [m_rows |-> r, m_columns |-> c, m_data |-> d] : d \in SeqsOfLen(S, r * c) }
            : <<r, c>> \in (1 .. n) \X (1 .. n) }

\* Two objects fresh from the constructor.
Init ==
    /\ \E ra \in 1 .. MaxDim, ca \in 1 .. MaxDim, fa \in Elem,
          rb \in 1 .. MaxDim, cb \in 1 .. MaxDim, fb \in Elem :
          /\ mats = [o \in Obj |-> IF o = "a" THEN matrix(ra, ca, fa).val
                                   ELSE matrix(rb, cb, fb).val]
          /\ given = [o \in Obj |-> IF o = "a" THEN <<ra, ca>> ELSE <<rb, cb>>]
    /\ call = Call("idle", "a", "a", 0, 0, T0)
    /\ err = OK
    /\ resM = NoMatrix
    /\ resT = T0
    /\ oob = FALSE

\* matrix<T> x(rows, columns, fill): the object named recv is declared anew.
Construct(recv) ==
    Idle /\ \E r \in 0 .. MaxDim, c \in 0 .. MaxDim, fill \in Elem :
        LET out == matrix(r, c, fill)
        IN  /\ call' = Call("matrix", recv, recv, r, c, fill)
            /\ err' = out.err
            /\ mats' = IF out.err = OK THEN [mats EXCEPT ![recv] = out.val] ELSE mats
            /\ given' = IF out.err = OK THEN [given EXCEPT ![recv] = <<r, c>>] ELSE given
            /\ resM' = NoMatrix
            /\ resT' = T0
            /\ oob' = FALSE

\* x.rows()
Rows(recv) ==
    /\ Idle
    /\ call' = Call("rows", recv, recv, 0, 0, T0)
    /\ err' = OK
    /\ resT' = rows(mats[recv])
    /\ resM' = NoMatrix
    /\ oob' = FALSE
    /\ UNCHANGED <<mats, given>>

\* x.columns()
Columns(recv) ==
    /\ Idle
    /\ call' = Call("columns", recv, recv, 0, 0, T0)
    /\ err' = OK
    /\ resT' = columns(mats[recv])
    /\ resM' = NoMatrix
    /\ oob' = FALSE
    /\ UNCHANGED <<mats, given>>

\* T v = x(row, column)
AtRead(recv) ==
    Idle /\ \E row \in 0 .. MaxDim, column \in 0 .. MaxDim :
        LET out == Load(mats[recv], row, column)
        IN  /\ call' = Call("at_read", recv, recv, row, column, T0)
            /\ err' = out.err
            /\ resT' = out.val
            /\ resM' = NoMatrix
            /\ oob' = FALSE
            /\ UNCHANGED <<mats, given>>

\* x(row, column) = v
AtWrite(recv) ==
    Idle /\ \E row \in 0 .. MaxDim, column \in 0 .. MaxDim, v \in Elem :
        LET out == Store([err |-> OK, val |-> mats[recv]], row, column, v)
        IN  /\ call' = Call("at_write", recv, recv, row, column, v)
            /\ err' = out.err
            /\ mats' = [mats EXCEPT ![recv] = out.val]
            /\ resT' = IF out.err = OK THEN v ELSE T0
            /\ resM' = NoMatrix
            /\ oob' = FALSE
            /\ UNCHANGED given

\* x = {e0, e1, ...}
AssignList(recv) ==
    Idle /\ \E n \in 0 .. MaxDim * MaxDim : \E operand \in SeqsOfLen(Elem, n) :
        LET out == op_assign(mats[recv], operand)
        IN  /\ call' = Call("assign", recv, recv, n, 0, T0)
            /\ err' = out.err
            /\ mats' = [mats EXCEPT ![recv] = out.val]
            /\ resM' = IF out.err = OK THEN out.val ELSE NoMatrix
            /\ resT' = T0
            /\ oob' = FALSE
            /\ UNCHANGED given

\* x.transform(lambda)
Transform(recv) ==
    Idle /\ \E lambda \in Lambdas :
        LET out == transform(mats[recv], lambda)
        IN  /\ call' = Call("transform", recv, recv, 0, 0, T0)
            /\ err' = out.err
            /\ mats' = [mats EXCEPT ![recv] = out.val]
            /\ resM' = IF out.err = OK THEN out.val ELSE NoMatrix
            /\ resT' = T0
            /\ oob' = FALSE
            /\ UNCHANGED given

\* A call that returns a matrix by value and writes to no object.
Pure(c, out) ==
    /\ Idle
    /\ call' = c
    /\ err' = out.err
    /\ resM' = out.val
    /\ resT' = T0
    /\ oob' = FALSE
    /\ UNCHANGED <<mats, given>>

\* x.row_vector(row)
RowVector(recv) ==
    \E row \in 0 .. MaxDim :
        Pure(Call("row_vector", recv, recv, row, 0, T0), row_vector(mats[recv], row))

\* x.column_vector(column)
ColumnVector(recv) ==
    \E column \in 0 .. MaxDim :
        Pure(Call("column_vector", recv, recv, column, 0, T0), column_vector(mats[recv], column))

\* x + y
Add(recv) ==
    \E other \in Obj :
        Pure(Call("add", recv, other, 0, 0, T0), op_add(mats[recv], mats[other]))

\* x - y
Sub(recv) ==
    \E other \in Obj :
        Pure(Call("sub", recv, other, 0, 0, T0), op_sub(mats[recv], mats[other]))

\* -x
Neg(recv) == Pure(Call("neg", recv, recv, 0, 0, T0), op_neg(mats[recv]))

\* x * s
Scale(recv) ==
    \E s \in Elem :
        Pure(Call("scale", recv, recv, 0, 0, s), op_mul_scalar(mats[recv], s))

\* x * y
Mul(recv) ==
    \E other \in Obj :
        Pure(Call("mul", recv, other, 0, 0, T0), op_mul(mats[recv], mats[other]))

\* x.transpose()
Transpose(recv) == Pure(Call("transpose", recv, recv, 0, 0, T0), transpose(mats[recv]))

\* x.minor(at_row, at_column), at_row and at_column up to bound.  A write
\* outside the storage of result is undefined behaviour: any of UBOutcomes.
MinorUpTo(recv, bound) ==
    Idle /\ \E at_row \in 0 .. bound, at_column \in 0 .. bound :
        LET out == minor(mats[recv], at_row, at_column)
        IN  /\ call' = Call("minor", recv, recv, at_row, at_column, T0)
            /\ oob' = out.oob
            /\ resT' = T0
            /\ UNCHANGED given
            /\ IF ~out.oob
               THEN /\ err' = out.err
                    /\ resM' = out.val
                    /\ UNCHANGED mats
               ELSE \E outcome \in UBOutcomes :
                    /\ err' = IF outcome = "aborts" THEN ABORTED ELSE OK
                    /\ resM' = IF outcome = "aborts" THEN NoMatrix ELSE out.val
                    /\ IF outcome = "corrupts"
                       THEN \E o \in Obj :
                                mats' = [mats EXCEPT ![o].m_data[1] = out.stray]
                       ELSE UNCHANGED mats

Minor(recv) == MinorUpTo(recv, MaxDim)

\* x.determinant()
Determinant(recv) ==
    LET out == determinant(mats[recv])
    IN  /\ Idle
        /\ call' = Call("determinant", recv, recv, 0, 0, T0)
        /\ err' = out.err
        /\ resT' = out.val
        /\ resM' = NoMatrix
        /\ oob' = FALSE
        /\ UNCHANGED <<mats, given>>

\* ~matrix(): the value the last call returned goes out of scope at the end of
\* the statement that made the call.
Destroy ==
    /\ call.op # "idle"
    /\ err # ABORTED
    /\ call' = Call("idle", "a", "a", 0, 0, T0)
    /\ err' = OK
    /\ resM' = NoMatrix
    /\ resT' = T0
    /\ oob' = FALSE
    /\ UNCHANGED <<mats, given>>

\* One statement of the client at a time: it declares a or b anew, calls a
\* member that writes to no object on either, or writes to a.  A process that
\* undefined behaviour killed makes no further call.
Next ==
    \/ Destroy
    \/ AtWrite("a")
    \/ AssignList("a")
    \/ Transform("a")
    \/ \E recv \in Obj :
        \/ Construct(recv)
        \/ Rows(recv)
        \/ Columns(recv)
        \/ AtRead(recv)
        \/ RowVector(recv)
        \/ ColumnVector(recv)
        \/ Add(recv)
        \/ Sub(recv)
        \/ Neg(recv)
        \/ Scale(recv)
        \/ Mul(recv)
        \/ Transpose(recv)
        \/ Minor(recv)
        \/ Determinant(recv)

Spec == Init /\ [][Next]_vars

\* The receiver of SpecDet: any matrix the client can have built in a.
InitDet ==
    /\ \E m \in AllMatrices(MaxN, DetElem) :
          /\ mats = [o \in Obj |-> IF o = "a" THEN m ELSE matrix(1, 1, T0).val]
          /\ given = [o \in Obj |-> IF o = "a" THEN <<m.m_rows, m.m_columns>> ELSE <<1, 1>>]
    /\ call = Call("idle", "a", "a", 0, 0, T0)
    /\ err = OK
    /\ resM = NoMatrix
    /\ resT = T0
    /\ oob = FALSE

MinorDet == MinorUpTo("a", MaxN)

\* The client calls minor and determinant on a.
NextDet ==
    \/ Destroy
    \/ MinorDet
    \/ Determinant("a")

SpecDet == InitDet /\ [][NextDet]_vars

(***************************************************************************)
(* The properties.  Element (r, c) of a matrix is the element at offset    *)
(* r * columns + c of its row-major data.                                  *)
(***************************************************************************)
Cell(m, r, c) == m.m_data[r * m.m_columns + c + 1]

HasShape(m, r, c) == m.m_rows = r /\ m.m_columns = c /\ Len(m.m_data) = r * c

\* The five exceptions of the library.
LibraryErrors ==
    {ERR_ROW_RANGE, ERR_COL_RANGE, ERR_INVALID_SIZE, ERR_INCOMPATIBLE, ERR_NOT_SQUARE}

\* C1: every live matrix, whatever calls were made on it or with it, has
\* rows >= 1 and columns >= 1, still has the rows and columns it was
\* constructed with, and holds exactly rows * columns elements.
C1_ShapeInvariant ==
    \A o \in Obj :
        /\ mats[o].m_rows >= 1
        /\ mats[o].m_columns >= 1
        /\ mats[o].m_rows = given[o][1]
        /\ mats[o].m_columns = given[o][2]
        /\ Len(mats[o].m_data) = mats[o].m_rows * mats[o].m_columns

\* C1 witness: a flat-list assignment of the wrong length has just failed on a
\* 2 x 2 matrix whose elements earlier writes made differ.
C1_Witness ==
    /\ call.op = "assign"
    /\ err = ERR_INCOMPATIBLE
    /\ HasShape(mats["a"], 2, 2)
    /\ Cell(mats["a"], 0, 0) # Cell(mats["a"], 1, 1)

\* C2: -x returns a matrix of the shape of x whose element (r, c) is -x(r, c)
\* for every r and c, and leaves x as it was.
C2_NegateClaim ==
    [][call'.op = "neg" =>
        LET x == mats[call'.recv]
        IN  /\ err' = OK
            /\ HasShape(resM', x.m_rows, x.m_columns)
            /\ \A r \in 0 .. x.m_rows - 1 : \A c \in 0 .. x.m_columns - 1 :
                   Cell(resM', r, c) = 0 - Cell(x, r, c)
            /\ mats' = mats]_vars

\* C3: x.column_vector(c) fails only when c >= columns, and then with the
\* column range error; for c < columns it returns a matrix of shape
\* (columns, 1) whose element (r, 0) is x(r, c) for every r < rows.
C3_ColumnVectorClaim ==
    call.op = "column_vector" =>
        LET x == mats[call.recv]
            c == call.i
        IN  IF c >= x.m_columns
            THEN err = ERR_COL_RANGE
            ELSE /\ err = OK
                 /\ HasShape(resM, x.m_columns, 1)
                 /\ \A r \in 0 .. x.m_rows - 1 : Cell(resM, r, 0) = Cell(x, r, c)

\* The permutations of 0 .. n-1, and the number of inversions of one.
Perms(n) == { p \in [0 .. n - 1 -> 0 .. n - 1] : \A i, j \in 0 .. n - 1 : p[i] = p[j] => i = j }

Inversions(p, n) == Cardinality({ <<i, j>> \in (0 .. n - 1) \X (0 .. n - 1) : i < j /\ p[i] > p[j] })

\* The product x(0, p[0]) * ... * x(k-1, p[k-1]).
RECURSIVE PermProduct(_, _, _)
PermProduct(x, p, k) ==
    IF k = 0 THEN 1 ELSE PermProduct(x, p, k - 1) * Cell(x, k - 1, p[k - 1])

\* The sum of f over the finite set S.
RECURSIVE SumOver(_, _)
SumOver(S, f) ==
    IF S = {} THEN 0
    ELSE LET e == CHOOSE e \in S : TRUE IN f[e] + SumOver(S \ {e}, f)

\* The determinant of the square matrix x as the signed sum over permutations.
LeibnizDet(x) ==
    LET n == x.m_rows
        P == Perms(n)
    IN  SumOver(P, [p \in P |-> IF Inversions(p, n) % 2 = 0
                                THEN PermProduct(x, p, n)
                                ELSE 0 - PermProduct(x, p, n)])

\* x without row i and column j, element by element.
Submatrix(x, i, j) ==
    [m_rows |-> x.m_rows - 1, m_columns |-> x.m_columns - 1,
     m_data |-> [k \in 1 .. (x.m_rows - 1) * (x.m_columns - 1) |->
                    LET r == (k - 1) \div (x.m_columns - 1)
                        c == (k - 1) % (x.m_columns - 1)
                    IN  Cell(x, IF r < i THEN r ELSE r + 1, IF c < j THEN c ELSE c + 1)]]

\* C4: x.determinant() throws the not-square error when rows # columns; on a
\* square x of size n <= MaxN it returns the determinant of x (the signed sum
\* over permutations), which is x(0,0) for n = 1, x(0,0)*x(1,1) - x(1,0)*x(0,1)
\* for n = 2, and for n > 2 the sum over row of x(row,0) times the determinant
\* of the minor at (row, 0), added for even row and subtracted for odd row.
C4_Determinant ==
    call.op = "determinant" =>
        LET x == mats[call.recv]
            n == x.m_rows
        IN  IF x.m_rows # x.m_columns
            THEN err = ERR_NOT_SQUARE
            ELSE /\ err = OK
                 /\ resT = LeibnizDet(x)
                 /\ n = 1 => resT = Cell(x, 0, 0)
                 /\ n = 2 => resT = Cell(x, 0, 0) * Cell(x, 1, 1) - Cell(x, 1, 0) * Cell(x, 0, 1)
                 /\ n > 2 => resT = SumOver(0 .. n - 1,
                                 [row \in 0 .. n - 1 |->
                                     LET term == Cell(x, row, 0) * LeibnizDet(Submatrix(x, row, 0))
                                     IN  IF row % 2 = 0 THEN term ELSE 0 - term])

\* C4 witness: determinant has returned a negative value for a 3 x 3 matrix.
C4_Witness ==
    /\ call.op = "determinant"
    /\ err = OK
    /\ HasShape(mats[call.recv], 3, 3)
    /\ resT < 0

\* C5: a call that throws one of the five exceptions leaves every object, its
\* rows, columns and elements, as it was before the call.
C5_FailureLeavesObjects ==
    [][err' \in LibraryErrors => mats' = mats /\ given' = given]_vars

\* C5 witness: a flat list of three elements was assigned to a 2 x 2 matrix
\* and the call threw.
C5_Witness ==
    /\ call.op = "assign"
    /\ call.i = 3
    /\ err = ERR_INCOMPATIBLE
    /\ HasShape(mats[call.recv], 2, 2)

\* The dot product of row "row" of x and column "col" of y, accumulated from
\* the default value over k = 0, 1, ..., n-1.
RECURSIVE DotUpTo(_, _, _, _, _)
DotUpTo(x, y, row, col, n) ==
    IF n = 0 THEN T0
    ELSE DotUpTo(x, y, row, col, n - 1) + Cell(x, row, n - 1) * Cell(y, n - 1, col)

\* C6: x * y throws the incompatible-dimensions error exactly when
\* x.columns # y.rows; otherwise it returns a matrix of shape
\* (x.rows, y.columns) whose element (row, col) is the sum over k of
\* x(row, k) * y(k, col); x and y are left as they were.
C6_Multiply ==
    [][call'.op = "mul" =>
        LET x == mats[call'.recv]
            y == mats[call'.other]
        IN  /\ mats' = mats
            /\ IF x.m_columns # y.m_rows
               THEN err' = ERR_INCOMPATIBLE
               ELSE /\ err' = OK
                    /\ HasShape(resM', x.m_rows, y.m_columns)
                    /\ \A row \in 0 .. x.m_rows - 1 : \A col \in 0 .. y.m_columns - 1 :
                           Cell(resM', row, col) = DotUpTo(x, y, row, col, x.m_columns)]_vars

\* C6 witness: a product of two different objects with inner dimension 2 was
\* returned, and it is not symmetric.
C6_Witness ==
    /\ call.op = "mul"
    /\ call.recv # call.other
    /\ err = OK
    /\ mats[call.recv].m_columns = 2
    /\ HasShape(resM, 2, 2)
    /\ Cell(resM, 0, 1) # Cell(resM, 1, 0)

\* C7: x * s returns a matrix of the shape of x whose every element is the
\* default value plus s, whatever the elements of x; x is left as it was.
C7_Scale ==
    [][call'.op = "scale" =>
        LET x == mats[call'.recv]
        IN  /\ mats' = mats
            /\ err' = OK
            /\ HasShape(resM', x.m_rows, x.m_columns)
            /\ \A r \in 0 .. x.m_rows - 1 : \A c \in 0 .. x.m_columns - 1 :
                   Cell(resM', r, c) = T0 + call'.v]_vars

\* C7 witness: a 2 x 2 matrix with an element that is neither 0 nor 1 was
\* scaled by a non-zero s.
C7_Witness ==
    /\ call.op = "scale"
    /\ err = OK
    /\ call.v # 0
    /\ HasShape(mats[call.recv], 2, 2)
    /\ Cell(mats[call.recv], 1, 0) \notin {0, 1}

\* C8: for rows >= 2, columns >= 2, at_row < rows and at_column < columns,
\* x.minor(at_row, at_column) returns the matrix of shape (rows-1, columns-1)
\* that holds, in row-major order, the elements x(r, c) with r # at_row and
\* c # at_column in their row-major order; x is left as it was.
C8_Minor ==
    [][(/\ call'.op = "minor"
        /\ mats[call'.recv].m_rows >= 2
        /\ mats[call'.recv].m_columns >= 2
        /\ call'.i < mats[call'.recv].m_rows
        /\ call'.j < mats[call'.recv].m_columns) =>
        LET x == mats[call'.recv]
        IN  /\ mats' = mats
            /\ err' = OK
            /\ HasShape(resM', x.m_rows - 1, x.m_columns - 1)
            /\ resM' = Submatrix(x, call'.i, call'.j)]_vars

\* C8 witness: the minor at (1, 1) of a 3 x 3 matrix was returned, and its
\* elements are not all equal.
C8_Witness ==
    /\ call.op = "minor"
    /\ call.i = 1
    /\ call.j = 1
    /\ err = OK
    /\ HasShape(mats[call.recv], 3, 3)
    /\ HasShape(resM, 2, 2)
    /\ Cell(resM, 0, 1) # Cell(resM, 1, 0)

\* C9: x(row, column) with row < rows and column < columns yields the slot at
\* offset row * columns + column: a read returns the element there and changes
\* nothing, a write changes that element alone; with row >= rows the call
\* throws the row range error, with row < rows and column >= columns the
\* column range error, and a call that throws changes nothing.  The
\* constructor leaves every element equal to the fill.
C9_ElementAccess ==
    [][/\ (call'.op = "matrix" /\ err' = OK) =>
              \A k \in DOMAIN mats'[call'.recv].m_data :
                  mats'[call'.recv].m_data[k] = call'.v
       /\ call'.op \in {"at_read", "at_write"} =>
              LET x == mats[call'.recv]
                  row == call'.i
                  column == call'.j
                  k == row * x.m_columns + column + 1
              IN  IF row >= x.m_rows
                  THEN err' = ERR_ROW_RANGE /\ mats' = mats
                  ELSE IF column >= x.m_columns
                  THEN err' = ERR_COL_RANGE /\ mats' = mats
                  ELSE IF call'.op = "at_read"
                  THEN err' = OK /\ resT' = x.m_data[k] /\ mats' = mats
                  ELSE /\ err' = OK
                       /\ mats' = [mats EXCEPT ![call'.recv].m_data =
                                      [n \in DOMAIN x.m_data |->
                                          IF n = k THEN call'.v ELSE x.m_data[n]]]]_vars

\* C9 witness: a read of element (1, 0) of a 2 x 2 matrix returned a value
\* that differs from element (0, 1).
C9_Witness ==
    /\ call.op = "at_read"
    /\ call.i = 1
    /\ call.j = 0
    /\ err = OK
    /\ HasShape(mats[call.recv], 2, 2)
    /\ resT = Cell(mats[call.recv], 1, 0)
    /\ resT # Cell(mats[call.recv], 0, 1)

\* C10: in x.minor(at_row, at_column) with rows >= 2 and columns >= 2, for
\* every at_row and at_column, every write into the storage of the result is
\* at an index below (rows-1) * (columns-1).
C10_MinorWritesInside ==
    (/\ call.op = "minor"
     /\ mats[call.recv].m_rows >= 2
     /\ mats[call.recv].m_columns >= 2) => ~oob

====
